---- MODULE Spec2Model ----
(***************************************************************************)
(* Model of the NetfilterQueue drain handshake of haproxy-docker-wrapper   *)
(* (netqueue.go): the control goroutine NetfilterQueue.loop, the packet    *)
(* goroutine it starts, the iptables rule manager, and the orchestrator    *)
(* tasks that call Capture and Release.                                    *)
(*                                                                         *)
(* Goroutines interleave at their synchronisation points and at every      *)
(* access to the shared variable `accepting`.  The packet goroutine reads  *)
(* `accepting` without any synchronisation with the writes of the control  *)
(* goroutine (a data race): the read is a step of its own, so the value it *)
(* sees is either side of a concurrent write, and everything the control   *)
(* goroutine does after the read is concurrent with the verdict.  Every    *)
(* write of `accepting` is followed, before loop does anything another     *)
(* goroutine or the kernel can see, by a call that orders memory (exec of  *)
(* iptables, accept.Signal), so a read sees the latest write that was made *)
(* before it.                                                              *)
(*                                                                         *)
(* The kernel puts a packet in the queue only while a redirect rule for    *)
(* the queue is installed.  A panic ends the process: nothing runs after   *)
(* it.                                                                     *)
(***************************************************************************)
EXTENDS Bags, FiniteSets, Integers, Naturals, Sequences, TLC

\* ---------------------------------------------------------------- bounds
NumClients == 2      \* orchestrator tasks that may be inside Capture / Release
MaxCalls   == 3      \* Capture and Release calls issued in one behaviour
MaxPackets == 1      \* SYN packets the kernel redirects in one behaviour
MaxIPs     == 2      \* length of the configured address list
MaxLines   == 2      \* lines of the accounting file read by one pass of Update
MaxPasses  == 2      \* passes of Update (the one of ReadProcNetfilter included)

\* ------------------------------------------------------------ the inputs
V4Addrs == {"10.0.0.1", "10.0.0.2"}
V6Addrs == {"fe80::1"}
Addrs   == V4Addrs \cup V6Addrs

QueueNumbers == {100}

\* net.IP.To4: nil for an address that is no IPv4 address
To4(ip) == IF ip \in V4Addrs THEN ip ELSE "nil"

RECURSIVE SeqsUpTo(_)
SeqsUpTo(n) ==
    IF n = 0 THEN {<< >>}
    ELSE LET shorter == SeqsUpTo(n - 1)
         IN  shorter \cup {Append(s, a) : s \in {t \in shorter : Len(t) = n - 1}, a \in Addrs}

\* the IPv4 addresses are interchangeable: a list is kept when its first
\* "10.0.0.2" comes after a "10.0.0.1"
FirstSeen(s) ==
    \A i \in DOMAIN s : s[i] = "10.0.0.2" => \E j \in 1..(i - 1) : s[j] = "10.0.0.1"

\* the address lists ipArgs can hand to NewNetfilterQueue (duplicates kept)
IPLists == {s \in SeqsUpTo(MaxIPs) : FirstSeen(s)}

\* the queue ids and the field values the accounting file can show
PnIds  == {0, 1}
PnVals == {0, 1}

\* The nine locals of Update, in the order Fscanf is given them:
\* id, portID, waiting, copyMode, copyRange, queueDropped, userDropped,
\* lastSeq, one.
NumFields == 9

\* A line of the accounting file: f are the nine values it was written from,
\* n the number of leading fields that are unsigned decimal numbers (the text
\* of field n + 1, if any, is not a number).  A well-formed line has n = 9.
GoodLine(id, v) == [f |-> <<id, v, v, 2, 65531, v, v, v + 1, 1>>, n |-> NumFields]
GoodLines == {GoodLine(id, v) : id \in PnIds, v \in PnVals}
BadPrefixes == {0, 1, 5}
BadLines == {[f |-> l.f, n |-> k] : l \in GoodLines, k \in BadPrefixes}
Lines == GoodLines \cup BadLines

\* the end of the file
EOF == [f |-> << >>, n |-> 0]

\* var id, portID, ... uint
ZeroCell == [i \in 1..NumFields |-> 0]

\* fmt.Fscanf(f, "%d %d %d %d %d %d %d %d %d\n", &id, ..., &one) on the next
\* line: each operand is stored as soon as its field is scanned; the scan
\* stops at the first field that is not a number, or at once at the end of
\* the file, and the operands not reached keep their values
Fscanf(c, line) ==
    IF line = EOF
    THEN [cell |-> c, err |-> "EOF"]
    ELSE [cell |-> [i \in 1..NumFields |-> IF i <= line.n THEN line.f[i] ELSE c[i]],
          err  |-> IF line.n = NumFields THEN "nil" ELSE "expected integer"]

\* ProcNetfilterQueue{ID: id, PortID: portID, ...}
MkQueue(c) ==
    [ID |-> c[1], PortID |-> c[2], Waiting |-> c[3], CopyMode |-> c[4],
     CopyRange |-> c[5], QueueDropped |-> c[6], UserDropped |-> c[7],
     LastSeq |-> c[8], One |-> c[9]]

\* Upsert that leaves alone an id the map already holds
Upsert_KeepFirst(qs, id, q) ==
    [k \in DOMAIN qs \cup {id} |-> IF k \in DOMAIN qs THEN qs[k] ELSE q]

\* pn.queues[id] = q
Upsert(qs, id, q) == [k \in DOMAIN qs \cup {id} |-> IF k = id THEN q ELSE qs[k]]

\* delete(pn.queues, k)
Delete(qs, k) == [j \in DOMAIN qs \ {k} |-> qs[j]]

\* make(map[uint]ProcNetfilterQueue)
EmptyMap == [k \in {} |-> 0]

iptablesAddFlag    == "-A"
iptablesDeleteFlag == "-D"

VARIABLES
    Number,        \* NetfilterQueue.Number
    IPs,           \* NetfilterQueue.IPs
    capture,       \* messages buffered in q.capture   (capacity 1)
    capturing,     \* messages buffered in q.capturing (capacity 1)
    release,       \* messages buffered in q.release   (capacity 1)
    loopPc,        \* position of the control goroutine (loop)
    idx,           \* index of the address iptables() is about to process
    accepting,     \* the gate, local of loop shared with the packet goroutine
    mutex,         \* accept.L: "free", or the goroutine whose Lock holds it
    queueOpen,     \* the nfqueue handle is open
    crashed,       \* the process has been aborted by a panic
    rules,         \* bag of the redirect rules installed in the INPUT chain
    kq,            \* packets waiting in the kernel queue (queue.GetPackets())
    pktPc,         \* position of the packet goroutine
    cur,           \* the packet the packet goroutine holds (0: none)
    count,         \* count of the packet goroutine
    notified,      \* a Signal has selected the parked packet goroutine
    atCaptureSend, \* calls of Capture waiting to send on q.capture
    atCaptureRecv, \* calls of Capture at <-q.capturing
    atReleaseSend, \* calls of Release waiting to send on q.release
    \* history of the run, read only by the properties
    nCaptureCall, nCaptureRet, nReleaseCall, nReleaseRet,
    nClosed, nInstalled, nAcked, nRelRecv, nRemoved, nOpened,
    nArrived, curHeld, cmdFailed,
    lastVerdict,   \* the latest SetVerdict call, as a sequence of at most one record
    verdictCount,  \* verdicts issued so far for each packet
    rulesBefore,   \* the installed rules when the current session began
    relAtCapRet,   \* Release calls made before the latest return of Capture
    \* ProcNetfilter (the reader of /proc/net/netfilter/nfnetlink_queue)
    pnState,       \* what ReadProcNetfilter gave its caller: "unset", "ready", "nil"
    queues,        \* pn.queues: a function from the ids held to their records
    rwWriter,      \* pn.RWMutex is held by Lock()
    rwReaders,     \* holders of pn.RWMutex by RLock()
    updPc,         \* position of the call of Update that is under way
    cell,          \* the nine locals of Update that Fscanf fills
    seen,          \* seen of Update
    getPc,         \* position of the call of Get that is under way
    \* history of the run, read only by the properties
    input,         \* the lines Update has read in the current or latest pass
    queuesBefore,  \* pn.queues when the current or latest pass locked it
    updErr,        \* how the latest pass returned
    nUpdates       \* passes of Update that have returned

chans   == <<capture, capturing, release>>
ctl     == <<loopPc, idx, accepting, queueOpen, crashed, rules>>
pkt     == <<kq, pktPc, cur, count, notified, mutex>>
clients == <<atCaptureSend, atCaptureRecv, atReleaseSend,
             nCaptureCall, nCaptureRet, nReleaseCall, nReleaseRet>>
ctlHist == <<nClosed, nInstalled, nAcked, nRelRecv, nRemoved, nOpened, cmdFailed,
             rulesBefore>>
pktHist == <<nArrived, curHeld, lastVerdict, verdictCount>>
config  == <<Number, IPs>>
proc    == <<pnState, queues, rwWriter, rwReaders, updPc, cell, seen, getPc,
             input, queuesBefore, updErr, nUpdates>>
vars    == <<config, chans, ctl, pkt, clients, ctlHist, pktHist, relAtCapRet, proc>>

\* the redirect rule iptables() names for one address
Rule(ip) == [chain |-> "INPUT", target |-> "NFQUEUE", proto |-> "tcp",
             dst |-> ip, queue |-> Number]

RECURSIVE RulesOf(_)
\* one rule per IPv4 address of the list, IPv6 addresses skipped
RulesOf(ips) ==
    IF ips = << >> THEN EmptyBag
    ELSE IF To4(Head(ips)) = "nil" THEN RulesOf(Tail(ips))
    ELSE RulesOf(Tail(ips)) (+) SetToBag({Rule(Head(ips))})

\* a drain session is in progress: the gate has been closed for a Capture
\* and the Release signal of that session has not been received yet
Draining == loopPc \in {"add", "ack", "recv_release"}

NCalls == nCaptureCall + nReleaseCall

\* the orchestrator tasks that are in no call
NIdle == NumClients - (atCaptureSend + atCaptureRecv + atReleaseSend)

\* ------------------------------------------------------------------ Init
\* no ProcNetfilter has been made yet
ProcInit ==
    /\ pnState = "unset"
    /\ queues = EmptyMap
    /\ rwWriter = FALSE /\ rwReaders = 0
    /\ updPc = "idle" /\ cell = ZeroCell /\ seen = {}
    /\ getPc = "idle"
    /\ input = << >> /\ queuesBefore = EmptyMap
    /\ updErr = "none" /\ nUpdates = 0

\* NewNetfilterQueue: three channels of capacity 1, loop started
Init ==
    /\ Number \in QueueNumbers
    /\ IPs \in IPLists
    /\ capture = 0 /\ capturing = 0 /\ release = 0
    /\ loopPc = "start" /\ idx = 1
    /\ accepting = TRUE
    /\ mutex = "free"
    /\ queueOpen = FALSE /\ crashed = FALSE
    /\ rules = EmptyBag
    /\ kq = << >>
    /\ pktPc = "none" /\ cur = 0 /\ count = 0 /\ notified = FALSE
    /\ atCaptureSend = 0 /\ atCaptureRecv = 0 /\ atReleaseSend = 0
    /\ nCaptureCall = 0 /\ nCaptureRet = 0 /\ nReleaseCall = 0 /\ nReleaseRet = 0
    /\ nClosed = 0 /\ nInstalled = 0 /\ nAcked = 0 /\ nRelRecv = 0
    /\ nRemoved = 0 /\ nOpened = 0
    /\ nArrived = 0 /\ curHeld = 0 /\ lastVerdict = << >>
    /\ verdictCount = [p \in 1..MaxPackets |-> 0]
    /\ cmdFailed = FALSE
    /\ rulesBefore = EmptyBag
    /\ relAtCapRet = 0
    /\ ProcInit

\* a panic in a goroutine: loop's deferred queue.Close() runs, the process dies
Panic ==
    /\ crashed' = TRUE
    /\ queueOpen' = FALSE

\* ------------------------------------------------- Capture and Release
\* The orchestrator tasks carry no state of their own: a call is known by the
\* statement it stands at.  A call runs up to its first channel operation in
\* one step, and through it when the channel has room; it stays at the send
\* only while the channel is full.

\* CaptureCall without the test for an empty address list
CaptureCall_NoEmptyCheck ==
    /\ ~crashed
    /\ NIdle > 0
    /\ NCalls < MaxCalls
    /\ nCaptureCall' = nCaptureCall + 1
    /\ IF capture = 0
       THEN /\ capture' = 1
            /\ atCaptureRecv' = atCaptureRecv + 1
            /\ UNCHANGED atCaptureSend
       ELSE /\ atCaptureSend' = atCaptureSend + 1
            /\ UNCHANGED <<capture, atCaptureRecv>>
    /\ UNCHANGED <<proc, relAtCapRet, config, capturing, release, ctl, pkt, atReleaseSend, nCaptureRet,
                   nReleaseCall, nReleaseRet, ctlHist, pktHist>>

\* Capture, up to and through q.capture <- struct{}{} when it has room:
\* returns at once for an empty address list
CaptureCall ==
    /\ ~crashed
    /\ NIdle > 0
    /\ NCalls < MaxCalls
    /\ nCaptureCall' = nCaptureCall + 1
    /\ IF Len(IPs) = 0
       THEN /\ nCaptureRet' = nCaptureRet + 1
            /\ UNCHANGED <<capture, atCaptureSend, atCaptureRecv>>
       ELSE /\ UNCHANGED nCaptureRet
            /\ IF capture = 0
               THEN /\ capture' = 1
                    /\ atCaptureRecv' = atCaptureRecv + 1
                    /\ UNCHANGED atCaptureSend
               ELSE /\ atCaptureSend' = atCaptureSend + 1
                    /\ UNCHANGED <<capture, atCaptureRecv>>
    /\ UNCHANGED <<proc, relAtCapRet, config, capturing, release, ctl, pkt, atReleaseSend,
                   nReleaseCall, nReleaseRet, ctlHist, pktHist>>

\* q.capture <- struct{}{}, by a call that found the channel full
CaptureSend ==
    /\ ~crashed
    /\ atCaptureSend > 0
    /\ capture = 0
    /\ capture' = 1
    /\ atCaptureSend' = atCaptureSend - 1
    /\ atCaptureRecv' = atCaptureRecv + 1
    /\ UNCHANGED <<proc, relAtCapRet, config, capturing, release, ctl, pkt, atReleaseSend,
                   nCaptureCall, nCaptureRet, nReleaseCall, nReleaseRet,
                   ctlHist, pktHist>>

\* CaptureRecv that does not wait for the acknowledgment: Capture returns once
\* its request is posted
CaptureRecv_NoWait ==
    /\ ~crashed
    /\ atCaptureRecv > 0
    /\ capturing' = 0
    /\ atCaptureRecv' = atCaptureRecv - 1
    /\ nCaptureRet' = nCaptureRet + 1
    /\ relAtCapRet' = nReleaseCall
    /\ UNCHANGED <<proc, config, capture, release, ctl, pkt, atCaptureSend, atReleaseSend,
                   nCaptureCall, nReleaseCall, nReleaseRet, ctlHist, pktHist>>

\* <-q.capturing, then Capture returns
CaptureRecv ==
    /\ ~crashed
    /\ atCaptureRecv > 0
    /\ capturing = 1
    /\ capturing' = 0
    /\ atCaptureRecv' = atCaptureRecv - 1
    /\ nCaptureRet' = nCaptureRet + 1
    /\ relAtCapRet' = nReleaseCall
    /\ UNCHANGED <<proc, config, capture, release, ctl, pkt, atCaptureSend, atReleaseSend,
                   nCaptureCall, nReleaseCall, nReleaseRet, ctlHist, pktHist>>

\* Release, up to and through q.release <- struct{}{} when it has room:
\* returns at once for an empty address list
ReleaseCall ==
    /\ ~crashed
    /\ NIdle > 0
    /\ NCalls < MaxCalls
    /\ nReleaseCall' = nReleaseCall + 1
    /\ IF Len(IPs) = 0
       THEN /\ nReleaseRet' = nReleaseRet + 1
            /\ UNCHANGED <<release, atReleaseSend>>
       ELSE IF release = 0
            THEN /\ release' = 1
                 /\ nReleaseRet' = nReleaseRet + 1
                 /\ UNCHANGED atReleaseSend
            ELSE /\ atReleaseSend' = atReleaseSend + 1
                 /\ UNCHANGED <<release, nReleaseRet>>
    /\ UNCHANGED <<proc, relAtCapRet, config, capture, capturing, ctl, pkt, atCaptureSend, atCaptureRecv,
                   nCaptureCall, nCaptureRet, ctlHist, pktHist>>

\* q.release <- struct{}{}, by a call that found the channel full; then
\* Release returns
ReleaseSend ==
    /\ ~crashed
    /\ atReleaseSend > 0
    /\ release = 0
    /\ release' = 1
    /\ atReleaseSend' = atReleaseSend - 1
    /\ nReleaseRet' = nReleaseRet + 1
    /\ UNCHANGED <<proc, relAtCapRet, config, capture, capturing, ctl, pkt, atCaptureSend, atCaptureRecv,
                   nCaptureCall, nCaptureRet, nReleaseCall, ctlHist, pktHist>>

\* the steps of a call that is under way (the goroutine scheduler runs them)
ClientProgress == CaptureSend \/ CaptureRecv \/ ReleaseSend

ClientStep == CaptureCall \/ ReleaseCall \/ ClientProgress

\* ------------------------------------------------------------ iptables
\* RunIptables that passes the add flag whatever flag it is given
RunIptables_AlwaysAdd(flag, ip, rs) == rs (+) SetToBag({Rule(ip)})

\* exec.Command("iptables", flag, ...).Run() on a rule set: the rule set after
\* a successful run
RunIptables(flag, ip, rs) ==
    IF flag = iptablesAddFlag
    THEN rs (+) SetToBag({Rule(ip)})
    ELSE rs (-) SetToBag({Rule(ip)})

\* the outcomes of the command: it may fail for any reason, and a delete of a
\* rule that is not installed always fails
CmdErrs(flag, ip) ==
    IF flag = iptablesDeleteFlag /\ ~BagIn(Rule(ip), rules) THEN {TRUE} ELSE BOOLEAN

\* Iptables that logs a failing command and goes on to the next address
Iptables_IgnoreError(flag, after) ==
    LET ip   == IPs[idx]
        last == idx = Len(IPs)
        next == /\ idx' = IF last THEN 1 ELSE idx + 1
                /\ loopPc' = IF last THEN after ELSE loopPc
                /\ nInstalled' = IF last /\ flag = iptablesAddFlag
                                 THEN nInstalled + 1 ELSE nInstalled
                /\ nRemoved' = IF last /\ flag = iptablesDeleteFlag
                               THEN nRemoved + 1 ELSE nRemoved
                /\ UNCHANGED <<queueOpen, crashed>>
    IN  IF To4(ip) = "nil"
        THEN /\ next
             /\ UNCHANGED <<rules, cmdFailed>>
        ELSE \E err \in CmdErrs(flag, ip) :
                IF err
                THEN /\ cmdFailed' = TRUE
                     /\ UNCHANGED rules
                     /\ next
                ELSE /\ rules' = RunIptables(flag, ip, rules)
                     /\ UNCHANGED cmdFailed
                     /\ next

\* One iteration of the loop of iptables(flag), for IPs[idx]: an IPv6 address is
\* logged and skipped, a failing command panics, and after the last address
\* loop goes on at `after`.
Iptables(flag, after) ==
    LET ip   == IPs[idx]
        last == idx = Len(IPs)
        next == /\ idx' = IF last THEN 1 ELSE idx + 1
                /\ loopPc' = IF last THEN after ELSE loopPc
                /\ nInstalled' = IF last /\ flag = iptablesAddFlag
                                 THEN nInstalled + 1 ELSE nInstalled
                /\ nRemoved' = IF last /\ flag = iptablesDeleteFlag
                               THEN nRemoved + 1 ELSE nRemoved
                /\ UNCHANGED <<queueOpen, crashed, cmdFailed>>
    IN  IF To4(ip) = "nil"
        THEN /\ next
             /\ UNCHANGED rules
        ELSE \E err \in CmdErrs(flag, ip) :
                IF err
                THEN /\ Panic
                     /\ cmdFailed' = TRUE
                     /\ UNCHANGED <<rules, idx, loopPc, nInstalled, nRemoved>>
                ELSE /\ rules' = RunIptables(flag, ip, rules)
                     /\ next

\* ------------------------------------------------- the control goroutine
\* loop, up to its for: returns for an empty address list, else opens the
\* nfqueue (panic on error), locks accept.L and starts the packet goroutine
LoopStart ==
    /\ ~crashed
    /\ loopPc = "start"
    /\ IF Len(IPs) = 0
       THEN /\ loopPc' = "returned"
            /\ UNCHANGED <<queueOpen, crashed, accepting, mutex, pktPc>>
       ELSE \E err \in BOOLEAN :
               IF err
               THEN /\ crashed' = TRUE
                    /\ UNCHANGED <<loopPc, queueOpen, accepting, mutex, pktPc>>
               ELSE /\ queueOpen' = TRUE
                    /\ accepting' = TRUE
                    /\ mutex' = "loop"
                    /\ pktPc' = "select"
                    /\ loopPc' = "recv_capture"
                    /\ UNCHANGED crashed
    /\ UNCHANGED <<proc, relAtCapRet, config, chans, idx, rules, kq, cur, count, notified,
                   clients, ctlHist, pktHist>>

\* <-q.capture
LoopRecvCapture ==
    /\ ~crashed
    /\ loopPc = "recv_capture"
    /\ capture = 1
    /\ capture' = 0
    /\ loopPc' = "close_gate"
    /\ UNCHANGED <<proc, relAtCapRet, config, capturing, release, idx, accepting, queueOpen, crashed,
                   rules, pkt, clients, ctlHist, pktHist>>

\* LoopCloseGate that leaves the gate open
LoopCloseGate_GateLeftOpen ==
    /\ ~crashed
    /\ loopPc = "close_gate"
    /\ nClosed' = nClosed + 1
    /\ rulesBefore' = rules
    /\ loopPc' = "add"
    /\ idx' = 1
    /\ UNCHANGED <<proc, relAtCapRet, config, chans, accepting, queueOpen, crashed, rules,
                   pkt, clients,
                   nInstalled, nAcked, nRelRecv, nRemoved, nOpened, cmdFailed, pktHist>>

\* accepting = false
LoopCloseGate ==
    /\ ~crashed
    /\ loopPc = "close_gate"
    /\ accepting' = FALSE
    /\ nClosed' = nClosed + 1
    /\ rulesBefore' = rules
    /\ loopPc' = "add"
    /\ idx' = 1
    /\ UNCHANGED <<proc, relAtCapRet, config, chans, queueOpen, crashed, rules, pkt, clients,
                   nInstalled, nAcked, nRelRecv, nRemoved, nOpened, cmdFailed, pktHist>>

\* q.iptables(iptablesAddFlag), one address
LoopIptablesAdd ==
    /\ ~crashed
    /\ loopPc = "add"
    /\ Iptables(iptablesAddFlag, "ack")
    /\ UNCHANGED <<proc, relAtCapRet, config, chans, accepting, pkt, clients,
                   nClosed, nAcked, nRelRecv, nOpened, rulesBefore, pktHist>>

\* q.capturing <- struct{}{}
LoopAck ==
    /\ ~crashed
    /\ loopPc = "ack"
    /\ capturing = 0
    /\ capturing' = 1
    /\ nAcked' = nAcked + 1
    /\ loopPc' = "recv_release"
    /\ UNCHANGED <<proc, relAtCapRet, config, capture, release, idx, accepting, queueOpen, crashed,
                   rules, pkt, clients,
                   nClosed, nInstalled, nRelRecv, nRemoved, nOpened, cmdFailed, rulesBefore, pktHist>>

\* LoopRecvRelease without the deferred iptables(-D): the rules stay installed
LoopRecvRelease_NoCleanup ==
    /\ ~crashed
    /\ loopPc = "recv_release"
    /\ release = 1
    /\ release' = 0
    /\ nRelRecv' = nRelRecv + 1
    /\ loopPc' = "open_gate"
    /\ idx' = 1
    /\ UNCHANGED <<proc, relAtCapRet, config, capture, capturing, accepting, queueOpen, crashed,
                   rules, pkt, clients,
                   nClosed, nInstalled, nAcked, nRemoved, nOpened, cmdFailed, rulesBefore, pktHist>>

\* LoopRecvRelease that does not wait for the Release signal
LoopRecvRelease_NoWait ==
    /\ ~crashed
    /\ loopPc = "recv_release"
    /\ release' = 0
    /\ nRelRecv' = nRelRecv + 1
    /\ loopPc' = "del"
    /\ idx' = 1
    /\ UNCHANGED <<proc, relAtCapRet, config, capture, capturing, accepting, queueOpen, crashed,
                   rules, pkt, clients,
                   nClosed, nInstalled, nAcked, nRemoved, nOpened, cmdFailed, rulesBefore, pktHist>>

\* <-q.release; the closure returns and its deferred iptables(-D) starts
LoopRecvRelease ==
    /\ ~crashed
    /\ loopPc = "recv_release"
    /\ release = 1
    /\ release' = 0
    /\ nRelRecv' = nRelRecv + 1
    /\ loopPc' = "del"
    /\ idx' = 1
    /\ UNCHANGED <<proc, relAtCapRet, config, capture, capturing, accepting, queueOpen, crashed,
                   rules, pkt, clients,
                   nClosed, nInstalled, nAcked, nRemoved, nOpened, cmdFailed, rulesBefore, pktHist>>

\* the deferred q.iptables(iptablesDeleteFlag), one address
LoopIptablesDel ==
    /\ ~crashed
    /\ loopPc = "del"
    /\ Iptables(iptablesDeleteFlag, "open_gate")
    /\ UNCHANGED <<proc, relAtCapRet, config, chans, accepting, pkt, clients,
                   nClosed, nAcked, nRelRecv, nOpened, rulesBefore, pktHist>>

\* accepting = true
LoopOpenGate ==
    /\ ~crashed
    /\ loopPc = "open_gate"
    /\ accepting' = TRUE
    /\ nOpened' = nOpened + 1
    /\ loopPc' = "signal"
    /\ UNCHANGED <<proc, relAtCapRet, config, chans, idx, queueOpen, crashed, rules, pkt, clients,
                   nClosed, nInstalled, nAcked, nRelRecv, nRemoved, cmdFailed, rulesBefore, pktHist>>

\* accept.Signal(): wakes the goroutine parked in accept.Wait(), if there is one
LoopSignal ==
    /\ ~crashed
    /\ loopPc = "signal"
    /\ notified' = IF pktPc = "parked" THEN TRUE ELSE notified
    /\ loopPc' = "recv_capture"
    /\ UNCHANGED <<proc, relAtCapRet, config, chans, idx, accepting, queueOpen, crashed, rules,
                   kq, pktPc, cur, count, mutex, clients, ctlHist, pktHist>>

LoopStep ==
    \/ LoopStart
    \/ LoopRecvCapture
    \/ LoopCloseGate
    \/ LoopIptablesAdd
    \/ LoopAck
    \/ LoopRecvRelease
    \/ LoopIptablesDel
    \/ LoopOpenGate
    \/ LoopSignal

\* --------------------------------------------------- the packet goroutine
\* the kernel enqueues a SYN packet that matches an installed redirect rule
PacketArrive ==
    /\ ~crashed
    /\ queueOpen
    /\ rules # EmptyBag
    /\ nArrived < MaxPackets
    /\ nArrived' = nArrived + 1
    /\ kq' = Append(kq, nArrived + 1)
    /\ UNCHANGED <<proc, relAtCapRet, config, chans, ctl, pktPc, cur, count, notified, mutex,
                   clients, ctlHist, curHeld, lastVerdict, verdictCount>>

\* case packet := <-queue.GetPackets()
PktDequeue ==
    /\ ~crashed
    /\ pktPc = "select"
    /\ kq # << >>
    /\ cur' = Head(kq)
    /\ kq' = Tail(kq)
    /\ curHeld' = IF accepting THEN 0 ELSE nClosed
    /\ pktPc' = "check"
    /\ UNCHANGED <<proc, relAtCapRet, config, chans, ctl, count, notified, mutex,
                   clients, ctlHist, nArrived, lastVerdict, verdictCount>>

\* case <-time.After(packetTimeout): log and reset a positive count
PktTimeout ==
    /\ ~crashed
    /\ pktPc = "select"
    /\ count > 0
    /\ count' = 0
    /\ UNCHANGED <<proc, relAtCapRet, config, chans, ctl, kq, pktPc, cur, notified, mutex,
                   clients, ctlHist, pktHist>>

\* PktCheck that never looks at the gate
PktCheck_NoGate ==
    /\ ~crashed
    /\ pktPc = "check"
    /\ pktPc' = "verdict"
    /\ UNCHANGED <<proc, relAtCapRet, config, chans, ctl, kq, cur, count, notified, mutex,
                   clients, ctlHist, pktHist>>

\* PktCheck that lets go of the packet when it finds the gate closed
PktCheck_LetGoWhenClosed ==
    /\ ~crashed
    /\ pktPc = "check"
    /\ pktPc' = IF accepting THEN "verdict" ELSE "select"
    /\ cur' = IF accepting THEN cur ELSE 0
    /\ UNCHANGED <<proc, relAtCapRet, config, chans, ctl, kq, count, notified, mutex,
                   clients, ctlHist, pktHist>>

\* for !accepting: the unsynchronised read of the gate
PktCheck ==
    /\ ~crashed
    /\ pktPc = "check"
    /\ pktPc' = IF accepting THEN "verdict" ELSE "wait"
    /\ UNCHANGED <<proc, relAtCapRet, config, chans, ctl, kq, cur, count, notified, mutex,
                   clients, ctlHist, pktHist>>

\* accept.Wait(), first half: joins the notify list and unlocks accept.L
\* (unlocking an unlocked mutex is a fatal error of the runtime)
PktWait ==
    /\ ~crashed
    /\ pktPc = "wait"
    /\ IF mutex = "free"
       THEN /\ crashed' = TRUE
            /\ UNCHANGED <<pktPc, mutex, notified>>
       ELSE /\ mutex' = "free"
            /\ notified' = FALSE
            /\ pktPc' = "parked"
            /\ UNCHANGED crashed
    /\ UNCHANGED <<proc, relAtCapRet, config, chans, loopPc, idx, accepting, queueOpen, rules,
                   kq, cur, count, clients, ctlHist, pktHist>>

\* accept.Wait(), second half: woken by a Signal, locks accept.L again
PktWake ==
    /\ ~crashed
    /\ pktPc = "parked"
    /\ notified
    /\ mutex = "free"
    /\ mutex' = "packet"
    /\ notified' = FALSE
    /\ pktPc' = "check"
    /\ UNCHANGED <<proc, relAtCapRet, config, chans, ctl, kq, cur, count,
                   clients, ctlHist, pktHist>>

\* count++; packet.SetVerdict(nfqueue.NF_ACCEPT)
PktVerdict ==
    /\ ~crashed
    /\ pktPc = "verdict"
    /\ count' = count + 1
    /\ lastVerdict' = <<[packet |-> cur, verdict |-> "NF_ACCEPT",
                         draining |-> Draining, heldIn |-> curHeld,
                         released |-> nRelRecv, opened |-> nOpened]>>
    /\ verdictCount' = [verdictCount EXCEPT ![cur] = @ + 1]
    /\ cur' = 0
    /\ curHeld' = 0
    /\ pktPc' = "select"
    /\ UNCHANGED <<proc, relAtCapRet, config, chans, ctl, kq, notified, mutex,
                   clients, ctlHist, nArrived>>

PktStep ==
    \/ PktDequeue
    \/ PktTimeout
    \/ PktCheck
    \/ PktWait
    \/ PktWake
    \/ PktVerdict

\* ------------------------------------------------------ ProcNetfilter
\* The accounting reader shares nothing with the drain handshake: main.go
\* never connects them.  Its calls are one task that runs ReadProcNetfilter
\* and then Update again and again, and one task that calls Get.  What the
\* file holds is the kernel's to decide: each Fscanf finds any line, or the
\* end of the file.  Every line ends with a newline.

drain == <<config, chans, ctl, pkt, clients, ctlHist, pktHist, relAtCapRet>>

\* the result of Get(id): the record held for id and whether there is one
\* (the zero record when there is none)
Get(qs, id) ==
    IF id \in DOMAIN qs
    THEN [q |-> qs[id], found |-> TRUE]
    ELSE [q |-> MkQueue(ZeroCell), found |-> FALSE]

\* UpdReturn with a ReadProcNetfilter that hands out the ProcNetfilter
\* whatever Update returned
UpdReturn_AlwaysReady(err) ==
    /\ rwWriter' = FALSE
    /\ updPc' = "idle"
    /\ updErr' = err
    /\ nUpdates' = nUpdates + 1
    /\ pnState' = "ready"

\* Update returns err: its deferred pn.Unlock() runs; ReadProcNetfilter
\* returns the ProcNetfilter only when err is nil
UpdReturn(err) ==
    /\ rwWriter' = FALSE
    /\ updPc' = "idle"
    /\ updErr' = err
    /\ nUpdates' = nUpdates + 1
    /\ pnState' = IF pnState = "unset"
                  THEN (IF err = "nil" THEN "ready" ELSE "nil")
                  ELSE pnState

\* ReadProcNetfilter up to its call of Update, or a later call of Update;
\* then pn.Lock()
UpdLock ==
    /\ pnState \in {"unset", "ready"}
    /\ updPc = "idle"
    /\ nUpdates < MaxPasses
    /\ ~rwWriter /\ rwReaders = 0
    /\ rwWriter' = TRUE
    /\ updPc' = "open"
    /\ queuesBefore' = queues
    /\ input' = << >>
    /\ UNCHANGED <<drain, pnState, queues, rwReaders, cell, seen, getPc, updErr,
                   nUpdates>>

\* os.Open(procNetfilterQueuePath): return err if it fails; else the locals
\* of the pass are made
UpdOpen ==
    /\ updPc = "open"
    /\ \E ok \in BOOLEAN :
          IF ok
          THEN /\ cell' = ZeroCell
               /\ seen' = {}
               /\ updPc' = "scan"
               /\ UNCHANGED <<rwWriter, updErr, nUpdates, pnState>>
          ELSE /\ UpdReturn("open")
               /\ UNCHANGED <<cell, seen>>
    /\ UNCHANGED <<drain, queues, rwReaders, getPc, input, queuesBefore>>

\* one turn of the for loop: Fscanf, then seen[id] = true and
\* pn.queues[id] = ..., and only then the look at err: break at io.EOF,
\* return any other error
UpdScan ==
    /\ updPc = "scan"
    /\ \E line \in (IF Len(input) < MaxLines THEN Lines ELSE {}) \cup {EOF} :
          LET r == Fscanf(cell, line) IN
          /\ cell' = r.cell
          /\ seen' = seen \cup {r.cell[1]}
          /\ queues' = Upsert(queues, r.cell[1], MkQueue(r.cell))
          /\ input' = IF line = EOF THEN input ELSE Append(input, line)
          /\ IF r.err = "EOF"
             THEN /\ updPc' = "evict"
                  /\ UNCHANGED <<rwWriter, updErr, nUpdates, pnState>>
             ELSE IF r.err # "nil"
             THEN UpdReturn(r.err)
             ELSE UNCHANGED <<updPc, rwWriter, updErr, nUpdates, pnState>>
    /\ UNCHANGED <<drain, rwReaders, getPc, queuesBefore>>

\* for k := range pn.queues: delete the next key that was not seen (Go
\* ranges over a map in any order); with none left, return nil
UpdEvict ==
    /\ updPc = "evict"
    /\ IF DOMAIN queues \subseteq seen
       THEN /\ UpdReturn("nil")
            /\ UNCHANGED queues
       ELSE /\ \E k \in DOMAIN queues \ seen : queues' = Delete(queues, k)
            /\ UNCHANGED <<rwWriter, updPc, updErr, nUpdates, pnState>>
    /\ UNCHANGED <<drain, rwReaders, cell, seen, getPc, input, queuesBefore>>

UpdStep == UpdLock \/ UpdOpen \/ UpdScan \/ UpdEvict

\* GetRLock that does not wait for the writer
GetRLock_NoLock ==
    /\ pnState = "ready"
    /\ getPc = "idle"
    /\ rwReaders' = rwReaders + 1
    /\ getPc' = "locked"
    /\ UNCHANGED <<drain, pnState, queues, rwWriter, updPc, cell, seen,
                   input, queuesBefore, updErr, nUpdates>>

\* Get: pn.RLock()
GetRLock ==
    /\ pnState = "ready"
    /\ getPc = "idle"
    /\ ~rwWriter
    /\ rwReaders' = rwReaders + 1
    /\ getPc' = "locked"
    /\ UNCHANGED <<drain, pnState, queues, rwWriter, updPc, cell, seen,
                   input, queuesBefore, updErr, nUpdates>>

\* Get: q, found := pn.queues[id]; return, and the deferred pn.RUnlock()
GetRead ==
    /\ getPc = "locked"
    /\ rwReaders' = rwReaders - 1
    /\ getPc' = "idle"
    /\ UNCHANGED <<drain, pnState, queues, rwWriter, updPc, cell, seen,
                   input, queuesBefore, updErr, nUpdates>>

GetStep == GetRLock \/ GetRead

\* --------------------------------------------------------- specifications
Next ==
    \/ ClientStep
    \/ LoopStep
    \/ PktStep
    \/ PacketArrive

Spec == Init /\ [][Next]_vars

\* the accounting reader on its own, beside a wrapper that drains nothing
ProcNext == UpdStep \/ GetStep

ProcStart == Init /\ IPs = << >>

ProcSpec == ProcStart /\ [][ProcNext]_vars

\* The Go scheduler runs every goroutine that can run: the control goroutine,
\* the packet goroutine and every call that is under way.  Whether the
\* orchestrator makes another call, and whether a packet arrives, is not
\* the program's to decide.
FairSpec ==
    /\ Spec
    /\ WF_vars(LoopStep)
    /\ WF_vars(PktStep)
    /\ WF_vars(CaptureSend) /\ WF_vars(CaptureRecv) /\ WF_vars(ReleaseSend)

\* ---------------------------------------------------------------- claims
\* packets the interceptor still owes a verdict: in its hands or in the queue
HeldPackets == cur # 0 \/ kq # << >>

\* no call is under way and no request or signal is waiting in a channel
Quiet ==
    /\ NIdle = NumClients
    /\ capture = 0
    /\ release = 0

\* C1: for a non-empty address list, the acknowledgment of a session is sent
\* only with the gate closed and the install step run for every address (the
\* installed rules are one rule per IPv4 address, for queue Number), and every
\* return of Capture takes an acknowledgment that was sent before it.
C1_CaptureReturnsAfterInstallAndAck ==
    [][ /\ nAcked' > nAcked =>
              /\ ~accepting
              /\ nClosed = nAcked' /\ nInstalled = nAcked'
              /\ rules = rulesBefore (+) RulesOf(IPs)
        /\ nCaptureRet' > nCaptureRet /\ Len(IPs) > 0 => nAcked >= nCaptureRet'
      ]_vars

\* a Capture has returned from a session with two addresses, both installed
C1_Witness ==
    /\ nCaptureRet >= 1
    /\ Len(IPs) = 2
    /\ BagCardinality(rules) = 2
    /\ ~accepting

\* C2: a packet dequeued while the gate is closed for session k is verdicted
\* only after the Release signal of session k has been received and the gate
\* has been reopened for it.
C2_HeldPacketVerdictAfterRelease ==
    \A i \in DOMAIN lastVerdict :
        lastVerdict[i].heldIn > 0 =>
            /\ lastVerdict[i].released >= lastVerdict[i].heldIn
            /\ lastVerdict[i].opened >= lastVerdict[i].heldIn
            /\ lastVerdict[i].verdict = "NF_ACCEPT"

\* a packet dequeued under a closed gate has been verdicted
C2_Witness == \E i \in DOMAIN lastVerdict : lastVerdict[i].heldIn > 0

\* C3: no verdict is issued while a drain session is in progress.
C3_NoVerdictWhileDraining ==
    \A i \in DOMAIN lastVerdict : ~lastVerdict[i].draining

\* C4: once the gate has been reopened and signalled after a Release, and no
\* further Capture or Release is called, every packet held is eventually
\* verdicted (the wake-up reaches the packet goroutine).
C4_HeldPacketsEventuallyVerdicted ==
    \A n \in 0..MaxCalls :
        (/\ nOpened >= 1 /\ loopPc = "recv_capture"
         /\ HeldPackets /\ Quiet /\ NCalls = n)
            ~> (~HeldPackets \/ NCalls > n \/ crashed)

\* C5: at the acknowledgment of a session the rules installed are those from
\* before the Capture plus one rule per IPv4 address for queue Number; when the
\* removal of the session completes the rules are those from before the
\* Capture again; rules change only inside iptables(); and after a Release
\* the removal eventually completes (or a failing command aborts the process).
C5_RulesInstalledThenRemoved ==
    /\ [][ /\ nAcked' > nAcked => rules = rulesBefore (+) RulesOf(IPs)
           /\ nRemoved' > nRemoved => rules' = rulesBefore
           /\ rules' # rules => loopPc \in {"add", "del"}
         ]_vars
    /\ (loopPc = "del" \/ release = 1) ~> (rules = EmptyBag \/ crashed)

\* a session with two rules has been released and its rules removed
C5_Witness ==
    /\ nRemoved >= 1
    /\ BagCardinality(RulesOf(IPs)) = 2
    /\ rules = EmptyBag

\* C6: when the installation of a session is about to begin, the removal of
\* every earlier session has completed and none of their rules is installed.
C6_SessionsSerialized ==
    (loopPc = "add" /\ idx = 1) =>
        /\ rules = EmptyBag
        /\ nRemoved = nClosed - 1
        /\ nInstalled = nClosed - 1

\* the installation of a second session is about to begin
C6_Witness ==
    /\ loopPc = "add" /\ idx = 1
    /\ nClosed = 2
    /\ RulesOf(IPs) # EmptyBag

\* C7: every Capture that returns after the first has waited for a Release
\* call, for the removal of the earlier session's rules and for an
\* acknowledgment: returns <= releases issued + 1, <= removals + 1, <= acks.
C7_SecondCaptureBlocks ==
    Len(IPs) > 0 =>
        /\ nCaptureRet <= nReleaseCall + 1
        /\ nCaptureRet <= nRemoved + 1
        /\ nCaptureRet <= nAcked

\* a second Capture has returned
C7_Witness == Len(IPs) > 0 /\ nCaptureRet = 2

\* C8: a Release call never waits: no call is ever left at its send on
\* q.release because the channel is full.
C8_ReleaseNeverBlocks ==
    atReleaseSend = 0

\* C9: with an empty address list every call has returned as soon as it is
\* made, no rule is installed, no queue opened, and no state of the
\* background task changes.
C9_EmptyAddressSetNoOp ==
    Len(IPs) = 0 =>
        /\ NIdle = NumClients
        /\ nCaptureRet = nCaptureCall /\ nReleaseRet = nReleaseCall
        /\ capture = 0 /\ capturing = 0 /\ release = 0
        /\ rules = EmptyBag
        /\ ~queueOpen /\ ~crashed
        /\ loopPc \in {"start", "returned"}
        /\ pktPc = "none" /\ accepting /\ mutex = "free"
        /\ nClosed = 0 /\ nInstalled = 0 /\ nRemoved = 0

\* Capture and Release have both been called on an empty address list
C9_Witness ==
    /\ Len(IPs) = 0
    /\ loopPc = "returned"
    /\ nCaptureCall >= 1 /\ nReleaseCall >= 1

\* C10: a failing iptables command aborts the process at that command: the
\* rules stay as they were, no later address is processed, and nothing runs
\* afterwards (no Capture returns, no further session).
C10_IptablesFailureAborts ==
    [][ /\ ~crashed
        /\ cmdFailed' => crashed'
        /\ (cmdFailed' /\ ~cmdFailed) =>
              /\ rules' = rules
              /\ idx' = idx /\ loopPc' = loopPc
              /\ nCaptureRet' = nCaptureRet
      ]_vars

\* the add for the second address failed: the first rule is left installed
\* and a Capture is waiting for the acknowledgment
C10_Witness ==
    /\ crashed /\ cmdFailed
    /\ loopPc = "add" /\ idx = 2
    /\ rules # EmptyBag
    /\ atCaptureRecv > 0

\* ------------------------------------------- claims on the ProcNetfilter
\* a pass of Update has returned nil and no other is under way
Refreshed == updPc = "idle" /\ updErr = "nil"

\* the ids of the lines the current or latest pass has read
InputIds == {input[i].f[1] : i \in DOMAIN input}

\* C11: after a pass of Update that returned nil, Get reports not-found for
\* every id the snapshot held before the pass that no line of the input
\* carries, whatever the input, the empty one included.
C11_AbsentIdsEvicted ==
    Refreshed =>
        \A id \in DOMAIN queuesBefore \ InputIds : ~Get(queues, id).found

\* the last line of the input that carries id
LastLineOf(id) ==
    LET i == CHOOSE i \in DOMAIN input :
                 /\ input[i].f[1] = id
                 /\ \A j \in DOMAIN input : j > i => input[j].f[1] # id
    IN  input[i]

C13_GetSeesWholeSnapshot ==
    [][ /\ (getPc = "locked" /\ getPc' = "idle") => (updPc = "idle" /\ ~rwWriter)
        /\ getPc = "locked" => queues' = queues
      ]_vars

\* a pass on a ready ProcNetfilter is half done: some lines are stored, the
\* map differs from the snapshot before the pass, and Get can be called
C13_Witness ==
    /\ pnState = "ready"
    /\ updPc = "scan"
    /\ Len(input) >= 1
    /\ queues # queuesBefore
    /\ getPc = "idle"

\* C14: when os.Open fails, Update returns the error with pn.queues exactly
\* as it was when the pass began, and ReadProcNetfilter returns nil instead
\* of a ProcNetfilter (its first pass is the one ReadProcNetfilter runs).
C14_OpenFailureLeavesSnapshot ==
    (updPc = "idle" /\ updErr = "open") =>
        /\ queues = queuesBefore
        /\ nUpdates = 1 => (pnState = "nil" /\ queues = EmptyMap)
        /\ nUpdates > 1 => pnState = "ready"

\* a pass on a ProcNetfilter that holds records has failed to open the file
C14_Witness ==
    /\ updPc = "idle" /\ updErr = "open"
    /\ nUpdates > 1
    /\ queues # EmptyMap

\* C20: after a pass of Update on a ProcNetfilter in use that returned the
\* error of a malformed line, every record of the snapshot is the record the snapshot held for that id
\* before the pass, or the nine fields of a well-formed line the pass read
\* before it failed.
C20_ParseFailureStoresWholeLines ==
    (pnState = "ready" /\ updPc = "idle" /\ updErr = "expected integer") =>
        \A id \in DOMAIN queues :
            \/ id \in DOMAIN queuesBefore /\ queues[id] = queuesBefore[id]
            \/ \E i \in DOMAIN input :
                   /\ input[i].n = NumFields
                   /\ input[i].f[1] = id
                   /\ queues[id] = MkQueue(input[i].f)

\* ---------------------------------------- further claims on the handshake
\* C15: for a non-empty address list, from the return of a Capture until a
\* Release is called after that return the session is Draining: the gate is
\* closed and the rules of the session are installed, whatever calls of
\* Capture and Release came before.
C15_DrainingUntilReleaseAfterReturn ==
    (Len(IPs) > 0 /\ nCaptureRet >= 1 /\ nReleaseCall = relAtCapRet /\ ~crashed) =>
        /\ Draining
        /\ ~accepting
        /\ rules = RulesOf(IPs)

\* C16: the gate is closed only once the install step of the session has
\* run for every configured address.
C16_InstallBeforeGateClose ==
    [][ (accepting /\ ~accepting') => nInstalled' = nClosed' ]_vars

\* C17: loop changes the gate only while it holds accept.L, and the packet
\* goroutine reads the gate only while it holds accept.L.
C17_GateAccessUnderMutex ==
    [][ /\ accepting' # accepting => mutex = "loop"
        /\ (pktPc = "check" /\ pktPc' # "check") => mutex = "packet"
      ]_vars

\* the packets the packet goroutine has dequeued and let go of
LetGo == {p \in 1..nArrived : p # cur /\ \A i \in DOMAIN kq : kq[i] # p}

C19_RulesOnlyWhileGateClosed ==
    [][ /\ rules' # EmptyBag => ~accepting'
        /\ rules' # rules => (~accepting /\ ~accepting')
        /\ (~accepting /\ accepting') => (rules = EmptyBag /\ nRemoved = nClosed)
      ]_vars

\* the rules of a second session are installed, after the gate was reopened
\* at the end of the first
C19_Witness ==
    /\ nOpened >= 1
    /\ nClosed = 2
    /\ rules # EmptyBag

====
